---- MODULE Spec2Model ----
(***************************************************************************)
(* A model of the Pagination component of Splide                           *)
(* (src/js/components/Pagination/Pagination.ts).                           *)
(*                                                                         *)
(* The component keeps a list element and an array of pagination items,    *)
(* rebuilds them on every updated/refresh event, mirrors the Controller's  *)
(* index into the items on every move/scrolled event and routes clicks and *)
(* key presses on the buttons to Controller.go.                            *)
(*                                                                         *)
(* A list element is identified by a positive number and a button by the   *)
(* number of its list element and its page; a new list element gets the    *)
(* least number that no element still referenced has.  The collaborators   *)
(* the component calls into (Controller, Slides, Direction, normalizeKey)  *)
(* are outside the modelled file; their definitions are grouped in the     *)
(* first section.                                                          *)
(***************************************************************************)
EXTENDS Integers, Sequences, FiniteSets

\* ---------------------------------------------------------------- bounds
MaxLength  == 3   \* largest number of slides
MaxPerPage == 2   \* largest options.perPage

\* ------------------------------------------------------------- constants
Null      == 0    \* the value of `list` when there is no pagination
NoIndex   == -1   \* Controller's previous index before the first change
NoPage    == -1   \* "no page": nextPage before a key matches, no focus

VARIABLES
  options,     \* [pagination, perPage, focus, direction]
  length,      \* Splide.length
  currIndex,   \* Controller: current index
  prevIndex,   \* Controller: previous index
  mounted,     \* whether mount() has registered the event handlers
  list,        \* the list element (its number) or Null
  items,       \* the array of pagination items
  dom,         \* list elements attached to the document, with their parent
  listeners,   \* the listeners bound on buttons
  detached,    \* the first button of the list element destroy() removed
               \* last, which a script may still hold
  focused,     \* page of the button that has the focus, or NoPage
  focusClass,  \* whether the list carries CLASS_FOCUS
  last,        \* the operation that ran last: [op, page, key, stale];
               \* key is the key a keydown handler received
  goCalls,     \* the calls to Controller.go made by the last operation
  focusCalls,  \* the buttons passed to focus() by the last operation
  prevented,   \* whether the last operation called prevent( e, true )
  emitted      \* the events emitted by the last operation

vars == << options, length, currIndex, prevIndex, mounted, list,
           items, dom, listeners, detached, focused, focusClass,
           last, goCalls, focusCalls, prevented, emitted >>

\* =================================================== collaborators
Paginations == { "false", "true", "slider" }
Directions  == { "ltr", "rtl", "ttb" }
Keys        == { "ArrowLeft", "ArrowRight", "ArrowUp", "ArrowDown",
                 "Home", "End", "Enter", "Right" }

OptionSet == [ pagination : Paginations, perPage : 1..MaxPerPage,
               focus : BOOLEAN, direction : Directions ]

\* JavaScript truthiness of options.pagination (boolean | string).
Truthy(v) == v # "false"

floor(a, b) == a \div b

min(a, b) == IF a < b THEN a ELSE b

max(a, b) == IF a > b THEN a ELSE b

clamp(n, x, y) == min(max(min(x, y), n), max(x, y))

\* Controller.hasFocus(): whether options.focus is defined.
hasFocus(o) == o.focus

\* Slides.isEnough(): there are more slides than fit in a page.
isEnough(o, len) == len > o.perPage

\* Controller.toPage( index )
toPage(index, o, len) ==
  IF hasFocus(o) THEN index
  ELSE floor(IF index >= len THEN len - 1 ELSE index, o.perPage)

\* Direction.resolve( prop ) for the two arrow keys.
resolve(prop, o) ==
  IF o.direction = "rtl"
    THEN (IF prop = "ArrowRight" THEN "ArrowLeft"
          ELSE IF prop = "ArrowLeft" THEN "ArrowRight" ELSE prop)
  ELSE IF o.direction = "ttb"
    THEN (IF prop = "ArrowRight" THEN "ArrowDown"
          ELSE IF prop = "ArrowLeft" THEN "ArrowUp" ELSE prop)
  ELSE prop

\* normalizeKey( e ): legacy key names are mapped to the standard ones.
normalizeKey(key) ==
  IF key = "Right" THEN "ArrowRight"
  ELSE IF key = "Left" THEN "ArrowLeft"
  ELSE key

\* =================================================== Pagination.ts
ceil(a, b) == (a + b - 1) \div b

PageCount_floor(o, len) == IF hasFocus(o) THEN len ELSE floor(len, o.perPage)

\* `max` of createPagination: the number of items to create.
PageCount(o, len) == IF hasFocus(o) THEN len ELSE ceil(len, o.perPage)

\* The button of page i under list element id.
Button(id, i) == << id, i >>

\* The item createPagination pushes for page i under list element id.
NewItem(id, i, o) ==
  [ page     |-> i,
    button   |-> Button(id, i),
    liRole   |-> "none",
    role     |-> "tab",
    controls |-> << "getIn", i >>,
    label    |-> [ text |-> IF ~hasFocus(o) /\ o.perPage > 1
                            THEN "pageX" ELSE "slideX",
                   n    |-> i + 1 ],
    active   |-> FALSE,
    selected |-> FALSE,
    tabindex |-> "-1" ]

\* What items[ i ] yields for an index outside the array.
Undefined == [ page |-> NoPage ]

\* items[ i ] of JavaScript (0-based, undefined outside the array).
At(its, i) == IF i \in 0..(Len(its) - 1) THEN its[i + 1] ELSE Undefined

\* The part of the state the component's functions read and write.
State == [ list |-> list, items |-> items, dom |-> dom,
           listeners |-> listeners, detached |-> detached,
           focused |-> focused,
           focusClass |-> focusClass, emitted |-> << >> ]

\* getAt( index )
getAt(s, index, o, len) == At(s.items, toPage(index, o, len))

destroy_keepItems(s) ==
  IF s.list # Null
    THEN [ s EXCEPT
             !.dom = { d \in s.dom : d.list # s.list },
             !.listeners = { l \in s.listeners :
                 ~ ( l.target \in { s.items[k].button : k \in 1..Len(s.items) }
                     /\ l.type \in { "click", "keydown", "focus" } ) },
             !.detached = { s.items[k].button : k \in 1..min(Len(s.items), 1) },
             !.list = Null,
             !.focused = NoPage,
             !.focusClass = FALSE ]
    ELSE s

\* destroy()
destroy(s) ==
  IF s.list # Null
    THEN [ s EXCEPT
             !.dom = { d \in s.dom : d.list # s.list },
             !.listeners = { l \in s.listeners :
                 ~ ( l.target \in { s.items[k].button : k \in 1..Len(s.items) }
                     /\ l.type \in { "click", "keydown", "focus" } ) },
             !.detached = { s.items[k].button : k \in 1..min(Len(s.items), 1) },
             !.items = << >>,
             !.list = Null,
             !.focused = NoPage,
             !.focusClass = FALSE ]
    ELSE s

\* The list elements that are still referenced.
Used(s) ==
  { s.list } \cup { d.list : d \in s.dom }
             \cup { s.items[k].button[1] : k \in 1..Len(s.items) }
             \cup { b[1] : b \in s.detached }
             \cup { l.target[1] : l \in s.listeners }

\* The list element create( 'ul', ... ) returns.
NewList(s) == CHOOSE id \in 1..(Cardinality(Used(s)) + 1) : id \notin Used(s)

\* createPagination(); the focusin and focusout listeners of the list are
\* the Focus and Keydown actions' changes of focusClass.
createPagination(s, o, len, sl) ==
  LET id     == NewList(s)
      parent == IF o.pagination = "slider" /\ sl THEN "slider" ELSE "root"
      n      == PageCount(o, len)
  IN [ s EXCEPT
         !.list = id,
         !.dom = s.dom \cup { [ list |-> id, parent |-> parent ] },
         !.listeners = s.listeners
            \cup { [ target |-> Button(id, i), type |-> t ] :
                     i \in 0..(n - 1), t \in { "click", "keydown" } },
         !.items = s.items \o [ k \in 1..n |-> NewItem(id, k - 1, o) ] ]

update_keepPrev(s, o, len, prevI, currI) ==
  LET c    == toPage(currI, o, len)
      prev == At(s.items, toPage(prevI, o, len))
      curr == At(s.items, c)
  IN [ s EXCEPT !.items = IF curr # Undefined
                            THEN [ s.items EXCEPT ![c + 1].active = TRUE,
                                                  ![c + 1].selected = TRUE,
                                                  ![c + 1].tabindex = "" ]
                            ELSE s.items,
                !.emitted = s.emitted \o
                   << [ name |-> "pagination:updated",
                        prev |-> prev.page, curr |-> curr.page ] >> ]

\* update(); prevI is getIndex( true ) and currI is getIndex().
update(s, o, len, prevI, currI) ==
  LET p    == toPage(prevI, o, len)
      c    == toPage(currI, o, len)
      prev == At(s.items, p)
      curr == At(s.items, c)
      its1 == IF prev # Undefined
                THEN [ s.items EXCEPT ![p + 1].active = FALSE,
                                      ![p + 1].selected = FALSE,
                                      ![p + 1].tabindex = "-1" ]
                ELSE s.items
      its2 == IF curr # Undefined
                THEN [ its1 EXCEPT ![c + 1].active = TRUE,
                                   ![c + 1].selected = TRUE,
                                   ![c + 1].tabindex = "" ]
                ELSE its1
  IN [ s EXCEPT !.items = its2,
                !.emitted = s.emitted \o
                   << [ name |-> "pagination:updated",
                        prev |-> prev.page, curr |-> curr.page ] >> ]

init_noDestroy(s, o, len, sl, prevI, currI, index) ==
  IF Truthy(o.pagination) /\ isEnough(o, len)
    THEN update(createPagination(s, o, len, sl), o, len, prevI, currI)
    ELSE s

\* init(); index is Splide.index.
init(s, o, len, sl, prevI, currI, index) ==
  LET d == destroy(s)
  IN IF Truthy(o.pagination) /\ isEnough(o, len)
       THEN LET c == createPagination(d, o, len, sl)
                m == [ c EXCEPT !.emitted = c.emitted \o
                         << [ name |-> "pagination:mounted",
                              prev |-> NoPage,
                              curr |-> getAt(c, index, o, len).page ] >> ]
            IN update(m, o, len, prevI, currI)
       ELSE d

onClick_noSame(page) ==
  << [ control |-> [ indicator |-> ">", number |-> page ],
       allowSameIndex |-> FALSE ] >>

\* onClick( page ): the call to Controller.go it makes.
onClick(page) ==
  << [ control |-> [ indicator |-> ">", number |-> page ],
       allowSameIndex |-> TRUE ] >>

nextPageOf_noWrap(key, page, len, o) ==
  IF len = 0 THEN NoPage
  ELSE IF key = resolve("ArrowRight", o) THEN page + 1
  ELSE IF key = resolve("ArrowLeft", o) THEN page - 1
  ELSE IF key = "Home" THEN 0
  ELSE IF key = "End" THEN len - 1
  ELSE NoPage

nextPageOf_first(key, page, len, o) ==
  IF len = 0 THEN NoPage
  ELSE IF key = resolve("ArrowRight", o) THEN (page + 1) % len
  ELSE IF key = resolve("ArrowLeft", o) THEN ((page - 1) + len) % len
  ELSE IF key = "Home" THEN 0
  ELSE IF key = "End" THEN len - 1
  ELSE 0

\* nextPage of onKeydown, for the normalized key
nextPageOf(key, page, len, o) ==
  IF len = 0 THEN NoPage
  ELSE IF key = resolve("ArrowRight", o) THEN (page + 1) % len
  ELSE IF key = resolve("ArrowLeft", o) THEN ((page - 1) + len) % len
  ELSE IF key = "Home" THEN 0
  ELSE IF key = "End" THEN len - 1
  ELSE NoPage

\* The value of the parameter `page` of onKeydown after the key is matched:
\* ++page and --page assign to it.
pageAfter(key, page, o) ==
  IF key = resolve("ArrowRight", o) THEN page + 1
  ELSE IF key = resolve("ArrowLeft", o) THEN page - 1
  ELSE page

\* onKeydown( page, e ): the focus() and go() calls and prevent().
onKeydown(its, page, e, o) ==
  LET key      == normalizeKey(e)
      nextPage == nextPageOf(key, page, Len(its), o)
      item     == At(its, nextPage)
  IN IF item # Undefined
       THEN [ focus     |-> << item.button >>,
              go        |-> << [ control |-> [ indicator |-> ">",
                                     number |-> pageAfter(key, page, o) ],
                                 allowSameIndex |-> FALSE ] >>,
              prevented |-> TRUE ]
       ELSE [ focus |-> << >>, go |-> << >>, prevented |-> FALSE ]

\* =================================================== the state machine
NoOp == [ op |-> "idle", page |-> NoPage, key |-> "", stale |-> FALSE ]

Op(name) == [ NoOp EXCEPT !.op = name ]

Init ==
  /\ options \in OptionSet
  /\ length \in 0..MaxLength
  /\ currIndex \in 0..max(length - 1, 0)
  /\ prevIndex = NoIndex
  /\ mounted = FALSE
  /\ list = Null
  /\ items = << >>
  /\ dom = {}
  /\ listeners = {}
  /\ detached = {}
  /\ focused = NoPage
  /\ focusClass = FALSE
  /\ last = NoOp
  /\ goCalls = << >>
  /\ focusCalls = << >>
  /\ prevented = FALSE
  /\ emitted = << >>

\* Assigns the component's part of the state from a State record.
Becomes(s) ==
  /\ list' = s.list
  /\ items' = s.items
  /\ dom' = s.dom
  /\ listeners' = s.listeners
  /\ detached' = s.detached
  /\ focused' = s.focused
  /\ focusClass' = s.focusClass
  /\ emitted' = s.emitted

Quiet == goCalls' = << >> /\ focusCalls' = << >> /\ prevented' = FALSE

\* No operation is running: operations are run one at a time, each to its
\* end, and `last` and the calls and events recorded with it describe the
\* operation that has just run until Return clears them.
Ready == last = NoOp

\* Whether init() under these options creates a list element.
Creates(o, len) == Truthy(o.pagination) /\ isEnough(o, len)

\* Whether Elements.slider exists, where createPagination looks for it.
Sliders(o) == IF o.pagination = "slider" THEN BOOLEAN ELSE { FALSE }

\* mount()
Mount ==
  /\ Ready
  /\ ~mounted
  /\ \E sl \in Sliders(options) :
       Becomes(init(State, options, length, sl, prevIndex, currIndex,
                    currIndex))
  /\ mounted' = TRUE
  /\ last' = Op("mount")
  /\ Quiet
  /\ UNCHANGED << options, length, currIndex, prevIndex >>

\* An updated event: the options have changed, then init() runs.
Updated ==
  /\ Ready
  /\ mounted
  /\ \E o \in OptionSet :
     \E sl \in Sliders(o) :
       /\ options' = o
       /\ Becomes(init(State, o, length, sl, prevIndex, currIndex,
                       currIndex))
  /\ last' = Op("updated")
  /\ Quiet
  /\ UNCHANGED << length, currIndex, prevIndex, mounted >>

\* A refresh event: the slides may have changed, Controller's init clamps
\* the index, then init() runs.
Refresh ==
  /\ Ready
  /\ mounted
  /\ \E len \in 0..MaxLength, sl \in Sliders(options) :
       LET index == clamp(currIndex, 0, len - 1)
       IN /\ length' = len
          /\ currIndex' = index
          /\ Becomes(init(State, options, len, sl, prevIndex, index, index))
  /\ last' = Op("refresh")
  /\ Quiet
  /\ UNCHANGED << options, prevIndex, mounted >>

\* A move or scrolled event: Controller.setIndex has recorded the index,
\* then update() runs.
Move ==
  /\ Ready
  /\ mounted
  /\ \E index \in 0..max(length - 1, 0), ev \in { "move", "scrolled" } :
       /\ currIndex' = index
       /\ prevIndex' = IF index # currIndex THEN currIndex ELSE prevIndex
       /\ Becomes(update(State, options, length, prevIndex', index))
       /\ last' = Op(ev)
  /\ Quiet
  /\ UNCHANGED << options, length, mounted >>

\* A direct call of the component's update().
Update ==
  /\ Ready
  /\ Becomes(update(State, options, length, prevIndex, currIndex))
  /\ last' = Op("update")
  /\ Quiet
  /\ UNCHANGED << options, length, currIndex, prevIndex, mounted >>

\* A direct call of the component's destroy().
Destroy ==
  /\ Ready
  /\ Becomes(destroy(State))
  /\ last' = Op("destroy")
  /\ Quiet
  /\ UNCHANGED << options, length, currIndex, prevIndex, mounted >>

\* The buttons a user or a script can dispatch an event on.
Buttons == { items[k].button : k \in 1..Len(items) } \cup detached

Bound(b, t) == [ target |-> b, type |-> t ] \in listeners

IsStale(b) == b[1] # list

\* A click event on a button.
Click ==
  \E b \in Buttons :
    /\ Ready
    /\ goCalls' = IF Bound(b, "click") THEN onClick(b[2]) ELSE << >>
    /\ focusCalls' = << >>
    /\ prevented' = FALSE
    /\ emitted' = << >>
    /\ last' = [ op |-> "click", page |-> b[2], key |-> "",
                 stale |-> IsStale(b) ]
    /\ UNCHANGED << options, length, currIndex, prevIndex, mounted,
                    list, items, dom, listeners, detached, focused,
                    focusClass >>

\* A keydown event on a button: a key pressed while the button has the
\* focus, or an event a script dispatches on a detached button.
Keydown ==
  \E b \in Buttons, e \in Keys :
    Ready /\ (IsStale(b) \/ focused = b[2]) /\
    LET r == IF Bound(b, "keydown")
               THEN onKeydown(items, b[2], e, options)
               ELSE [ focus |-> << >>, go |-> << >>, prevented |-> FALSE ]
    IN /\ goCalls' = r.go
       /\ focusCalls' = r.focus
       /\ prevented' = r.prevented
       /\ focused' = IF r.focus # << >> THEN r.focus[1][2] ELSE focused
       /\ focusClass' = IF r.focus # << >> THEN TRUE ELSE focusClass
       /\ emitted' = << >>
       /\ last' = [ op |-> "keydown", page |-> b[2],
                    key |-> IF Bound(b, "keydown") THEN e ELSE "",
                    stale |-> IsStale(b) ]
       /\ UNCHANGED << options, length, currIndex, prevIndex,
                       mounted, list, items, dom, listeners, detached >>

\* The user moves the focus to a button of the pagination (focusin on the
\* list adds CLASS_FOCUS) or away from it (focusout removes it).
Focus ==
  /\ Ready
  /\ list # Null
  /\ \E p \in { NoPage } \cup 0..(Len(items) - 1) :
       /\ p # focused
       /\ focused' = p
       /\ focusClass' = (p # NoPage)
  /\ last' = Op("focus")
  /\ emitted' = << >>
  /\ Quiet
  /\ UNCHANGED << options, length, currIndex, prevIndex, mounted,
                  list, items, dom, listeners, detached >>

\* The operation that ran last has returned and been observed.
Return ==
  /\ ~Ready
  /\ last' = NoOp
  /\ emitted' = << >>
  /\ Quiet
  /\ UNCHANGED << options, length, currIndex, prevIndex, mounted, list,
                  items, dom, listeners, detached, focused,
                  focusClass >>

Next ==
  \/ Mount
  \/ Updated
  \/ Refresh
  \/ Move
  \/ Update
  \/ Destroy
  \/ Click
  \/ Keydown
  \/ Focus
  \/ Return

Spec == Init /\ [][Next]_vars

\* =================================================== properties
Exists == list # Null

\* An item is in the active state, or in the inactive one.
IsActive(it) == it.active /\ it.selected /\ it.tabindex = ""

IsInactive(it) == ~it.active /\ ~it.selected /\ it.tabindex = "-1"

InitOps == { "mount", "updated", "refresh" }

\* C1: whenever the pagination exists, the item of the page of the current
\* index, if there is one, is in the active state, and every other item is
\* in the inactive state (no active class, no aria-selected, tabindex -1);
\* so at most one item is active.
C1_ActiveItem ==
  Exists =>
    LET c == toPage(currIndex, options, length)
    IN /\ \A k \in 1..Len(items) :
            IF k = c + 1 THEN IsActive(items[k]) ELSE IsInactive(items[k])
       /\ Cardinality({ k \in 1..Len(items) : ~IsInactive(items[k]) }) <= 1

\* The index has moved from one page to another one, both with an item.
C1_Witness ==
  /\ last.op \in { "move", "scrolled" }
  /\ Len(items) >= 3
  /\ prevIndex # NoIndex
  /\ toPage(prevIndex, options, length) # toPage(currIndex, options, length)
  /\ IsActive(items[toPage(currIndex, options, length) + 1])
  /\ IsInactive(items[toPage(prevIndex, options, length) + 1])

\* ceil( a / b ), as the least k with k * b >= a.
LeastCover(a, b) == CHOOSE k \in 0..a : k * b >= a /\ (k - 1) * b < a

\* C2: after every init() there are no items and no list element when
\* options.pagination is falsy or Slides.isEnough() is false; otherwise
\* there are Splide.length items when Controller.hasFocus() holds and
\* ceil( length / perPage ) when it does not, and the item at position i has
\* page i and a button with the role 'tab'.
C2_ItemCount ==
  last.op \in InitOps =>
    IF ~Truthy(options.pagination) \/ ~isEnough(options, length)
      THEN Len(items) = 0 /\ list = Null /\ dom = {}
      ELSE /\ list # Null
           /\ Len(items) = IF hasFocus(options) THEN length
                           ELSE LeastCover(length, options.perPage)
           /\ \A i \in 0..(Len(items) - 1) :
                items[i + 1].page = i /\ items[i + 1].role = "tab"

\* An init() that makes fewer items than there are slides.
C2_Witness ==
  /\ last.op \in { "updated", "refresh" }
  /\ ~hasFocus(options)
  /\ options.perPage = 2
  /\ length = 3
  /\ Len(items) = 2
  /\ items[2].page = 1

Indices == (-2)..(MaxLength + 1)

\* C4: getAt( index ) is the item whose page is Controller.toPage( index )
\* when that page is within the items, and undefined otherwise, also when
\* there is no pagination; the item it returns belongs to the current list
\* element, never to a removed one.
C4_GetAt ==
  \A index \in Indices :
    LET p == toPage(index, options, length)
        r == getAt(State, index, options, length)
    IN IF Exists /\ p \in 0..(Len(items) - 1)
         THEN /\ r.page = p
              /\ r.button = Button(list, p)
              /\ r.button \notin detached
         ELSE r = Undefined

\* A pagination that replaced an earlier one: getAt finds the current item
\* and nothing before the first page.
C4_Witness ==
  /\ Exists
  /\ detached # {}
  /\ getAt(State, currIndex, options, length).button = Button(list, 1)
  /\ getAt(State, -1, options, length) = Undefined

\* The keys onKeydown handles under the current direction.
Forward  == resolve("ArrowRight", options)

Backward == resolve("ArrowLeft", options)

HandledIn(o, key) ==
  normalizeKey(key) \in { resolve("ArrowRight", o), resolve("ArrowLeft", o),
                          "Home", "End" }

Handled(key) == HandledIn(options, key)

\* A keydown handler of a button of the current pagination has run.
KeydownRan == last.op = "keydown" /\ ~last.stale

\* The page the claim sends the focus to, for key k pressed on page p of n.
Target(k, p, n) ==
  IF normalizeKey(k) = Forward THEN (IF p = n - 1 THEN 0 ELSE p + 1)
  ELSE IF normalizeKey(k) = Backward THEN (IF p = 0 THEN n - 1 ELSE p - 1)
  ELSE IF normalizeKey(k) = "Home" THEN 0
  ELSE n - 1

\* C5: a handled key pressed on the button of page p of n items moves the
\* focus to the next page (wrapping to the first), the previous page
\* (wrapping to the last), the first page for Home or the last one for End,
\* and the event's default action is prevented.
C5_KeydownFocus ==
  (KeydownRan /\ Handled(last.key)) =>
    LET q == Target(last.key, last.page, Len(items))
    IN /\ focusCalls = << Button(list, q) >>
       /\ focused = q
       /\ focusClass
       /\ prevented

\* The forward key on the last page has wrapped to the first one.
C5_Witness ==
  /\ KeydownRan
  /\ normalizeKey(last.key) = Forward
  /\ Len(items) >= 3
  /\ last.page = Len(items) - 1
  /\ focused = 0
  /\ prevented

\* C6: for every handled key, the destination passed to Controller.go is
\* '>q' where q is the page of the button that receives the focus in the
\* same keydown.
C6_GoFocusedPage ==
  (KeydownRan /\ Handled(last.key)) =>
    /\ Len(goCalls) = 1
    /\ Len(focusCalls) = 1
    /\ goCalls[1].control =
         [ indicator |-> ">", number |-> focusCalls[1][2] ]
    /\ goCalls[1].control.number \in 0..(Len(items) - 1)

\* C7: a keydown with any other key focuses no button, does not call
\* Controller.go, does not prevent the default and changes no item.
C7_OtherKey ==
  [][ (last'.op = "keydown" /\ ~last'.stale /\ ~HandledIn(options', last'.key)) =>
        /\ goCalls' = << >>
        /\ focusCalls' = << >>
        /\ prevented' = FALSE
        /\ emitted' = << >>
        /\ UNCHANGED << items, focused, focusClass, list, dom, listeners >>
    ]_vars

\* Enter pressed on a button.
C7_Witness ==
  /\ KeydownRan
  /\ last.key = "Enter"
  /\ focused = last.page
  /\ goCalls = << >>
  /\ ~prevented

ButtonEvents == { "click", "keydown", "focus" }

\* destroy() has removed the list element, unbound the listeners of the
\* buttons and emptied the items.
Destroyed ==
  /\ list = Null
  /\ items = << >>
  /\ dom = {}
  /\ \A l \in listeners : l.type \notin ButtonEvents

\* At most one list element is attached, the current one; the items are
\* those of one init(); only buttons of the current list element have
\* listeners, and an event on a detached button calls nothing.
NoLeftover ==
  /\ dom \subseteq { [ list |-> list, parent |-> pa ] :
                       pa \in { "root", "slider" } }
  /\ Cardinality(dom) <= 1
  /\ Exists => Cardinality(dom) = 1
  /\ last.op \in InitOps =>
       Len(items) = IF Creates(options, length)
                      THEN PageCount(options, length) ELSE 0
  /\ \A k \in 1..Len(items) : items[k].button = Button(list, k - 1)
  /\ \A l \in listeners : l.type \in ButtonEvents => l.target[1] = list
  /\ (last.op \in { "click", "keydown" } /\ last.stale) =>
       goCalls = << >> /\ focusCalls = << >>

\* C8: destroy() removes the list element, unbinds the listeners of every
\* button, empties items and clears list; a second destroy() changes
\* nothing; and as init() destroys first, consecutive updated/refresh events
\* leave the items of a single init and at most one list element, and a
\* button of a replaced pagination no longer calls Controller.go.
C8_Destroy ==
  [][ /\ NoLeftover'
      /\ last'.op = "destroy" => Destroyed'
      /\ (last'.op = "destroy" /\ list = Null) =>
           UNCHANGED << list, items, dom, listeners, detached, focused,
                        focusClass >> ]_vars

\* A click on a button of a pagination that a later init() has replaced.
C8_Witness ==
  /\ last.op = "click"
  /\ last.stale
  /\ Exists
  /\ detached # {}
  /\ Len(items) >= 2
  /\ goCalls = << >>

====
